---- MODULE Spec2Model ----
(***************************************************************************)
(* Axe manager: the mock record store (MockAxeService), the subscription   *)
(* bridge (useBondAxes) and the reconciliation logic of the presentation   *)
(* variants V1..V6, as one state machine.                                  *)
(*                                                                         *)
(* Spec is the service with one mounted view; StoreSpec is the service     *)
(* called directly (view = "API"): commands, subscribe and the closures    *)
(* subscribe returns, with the listeners' invocations recorded in held.    *)
(* LiveSpec is the service with one listener attached and timers that      *)
(* fire; HookSpec is the instrument directory hook (useBondInstruments).   *)
(*                                                                         *)
(* Scheduling.  The page is single threaded.  Every command waits the same *)
(* constant delay, so commands take effect in call order: inflight is a    *)
(* FIFO queue.  The store's effect, its broadcast and the caller's         *)
(* then/catch continuation run in one timer turn and its microtasks, so    *)
(* they form one atomic step; each user event handler is one atomic step.  *)
(*                                                                         *)
(* Abstractions.  lastUpdate (a wall-clock timestamp) is left out of the   *)
(* records.  description stands for the denormalised instrument fields     *)
(* (description, maturity, issuer).  The grid widget is an external        *)
(* collaborator: it reports a cell edit as (row, field, new value) and     *)
(* offers the buttons the ActionsRenderer renders.                         *)
(***************************************************************************)
EXTENDS Integers, Sequences, FiniteSets, TLC

(* ------------------------------ bounds --------------------------------- *)

\* identifiers the store's uuidv4() may hand out
MaxStoreIds == 1
\* identifiers the views' uuidv4() may hand out; a creation row is filled in
\* only while one is left
MaxClientIds == 1
\* commands in flight at once
MaxInFlight == 2
\* commands issued in one run
MaxCommands == 3
\* new-row drafts at once (V3, V5)
MaxNewRows == 1

(* ------------------------------ values --------------------------------- *)

Views == {"V1", "V2", "V3", "V4", "V5", "V6"}

DEFAULT_QUANTITY == 1000000
OTHER_QUANTITY == 2 * DEFAULT_QUANTITY

Sides == {"Bid", "Offer"}
Quantities == {DEFAULT_QUANTITY, OTHER_QUANTITY}
Statuses == {"ACTIVE", "PAUSED", "BLOCKED"}

\* an optional field that is not set: undefined
NoSide == "undefined"
NoQty == -1
NoId == <<"none", 0>>
PINNED_ROW_ID == <<"pinned-new-axe", 0>>

StoreId(n) == <<"store", n>>
ClientId(n) == <<"client", n>>
IsStoreGenerated(id) == id[1] = "store"

\* the instrument universe: code -> denormalised fields
mockInstruments == {[isin |-> "US0000000000", description |-> "US Treasury"]}
\* text typed into V3's instrument editor without picking a suggestion
TypedCodes == {"ZZ"}

\* mutation: a directory in which every code resolves
findInstrumentAny(isin) == mockInstruments

findInstrument(isin) == {i \in mockInstruments : i.isin = isin}

(* ------------------------------ state ---------------------------------- *)

VARIABLES
    view,            \* the mounted presentation variant ("API" when there is none)
    storeAxes,       \* MockAxeService.axes: the Map, as its values in insertion order
    storeUuid,       \* how many identifiers the store's uuidv4() has handed out
    clientUuid,      \* how many identifiers the view's uuidv4() has handed out
    inflight,        \* commands waiting out simulateDelay(), in call order
    issued,          \* how many commands have been called so far
    axes,            \* useBondAxes: the view's base list
    snapshot,        \* the list the listener last received from the store
    pendingEdits,    \* V4..V6: axeId -> [side, quantity]
    newRows,         \* V3, V5: new-row drafts
    pinnedRow,       \* V6: the pinned creation row
    selectedInstrument, \* V2, V4: the toolbar's instrument ("" when none)
    modalOpened,     \* V2, V4: the create modal
    saving,          \* V2, V4: the modal's saving flag
    listeners,       \* MockAxeService.listeners: the listeners a direct caller attached
    handles,         \* the closures subscribe returned, by call: listener, whether invoked
    held,            \* per listener: the list it was last invoked with, and how often
    lastOutcome,     \* history: how the last command of a direct caller settled
    lastHandler,     \* history: the handler the step before ran, where a property asks
    selectedAxe,     \* V1: the row object the last selection event handed over
    modalMode,       \* V1: 'create' | 'edit' (the other modal views only create)
    directory,       \* what fetchInstruments resolves with
    hooks,           \* the useBondInstruments instances mounted so far
    fetching,        \* fetchInstruments calls waiting out their delay: their hooks
    searched         \* the last searchInstruments call: hook, query, result

vars == <<view, storeAxes, storeUuid, clientUuid, inflight, issued, axes, snapshot,
          pendingEdits, newRows, pinnedRow, selectedInstrument, modalOpened,
          saving, listeners, handles, held, lastOutcome, lastHandler,
          selectedAxe, modalMode, directory, hooks, fetching, searched>>

\* the state of a caller that uses the service directly, without a view
apiVars == <<listeners, handles, held, lastOutcome>>

\* the drafts a view keeps beside its base list
draftVars == <<pendingEdits, newRows, pinnedRow>>

\* the state only V1 has
v1Vars == <<selectedAxe, modalMode>>

\* the instrument directory hook
loadVars == <<directory, hooks, fetching, searched>>
NoSearch == [hook |-> 0, query |-> <<>>, result |-> <<>>]

\* the listener functions such a caller passes to subscribe
Listeners == {"L1", "L2"}

NeverInvoked == [list |-> <<>>, n |-> 0]
NoAxe == [id |-> NoId]
NoOutcome == [op |-> "none", id |-> NoId, ok |-> TRUE, error |-> "none",
              returned |-> NoAxe,
              status |-> "none",
              queued |-> 0, prevOp |-> "none", prevStatus |-> "none"]

DraftViews == {"V4", "V5", "V6"}
NewRowViews == {"V3", "V5"}
ModalViews == {"V1", "V2", "V4"}
InlineViews == {"V2", "V3"}

DEFAULT_PINNED_ROW ==
    [id |-> PINNED_ROW_ID, isin |-> "", description |-> "", side |-> "Bid",
     quantity |-> DEFAULT_QUANTITY, status |-> "ACTIVE"]

\* PendingEdits = Record<string, ...>: the empty record
NoEdits == [k \in {} |-> [side |-> NoSide, quantity |-> NoQty]]

\* the store is a singleton that outlives the views: V3 and V6 are also
\* followed from a mount on a store that holds a record created before the
\* mount
SeededViews == {"V3", "V6"}
SeedAxe ==
    LET instrument == CHOOSE i \in mockInstruments : TRUE
    IN  [id |-> StoreId(1), isin |-> instrument.isin,
         description |-> instrument.description, side |-> "Bid",
         quantity |-> DEFAULT_QUANTITY, status |-> "ACTIVE"]

Init ==
    /\ view \in Views
    /\ storeAxes \in (IF view \in SeededViews THEN {<<>>, <<SeedAxe>>} ELSE {<<>>})
    /\ storeUuid = Len(storeAxes)
    /\ clientUuid = 0
    /\ inflight = <<>>
    /\ issued = 0
    \* subscribe hands the mounting view the store's records
    /\ axes = storeAxes
    /\ snapshot = storeAxes
    /\ pendingEdits = NoEdits
    /\ newRows = <<>>
    /\ pinnedRow = DEFAULT_PINNED_ROW
    /\ selectedInstrument = ""
    /\ modalOpened = FALSE
    /\ saving = FALSE
    /\ listeners = {}
    /\ handles = <<>>
    /\ held = [l \in Listeners |-> NeverInvoked]
    /\ lastOutcome = NoOutcome
    /\ lastHandler = "none"
    /\ selectedAxe = NoAxe
    /\ modalMode = "create"
    /\ directory = <<>>
    /\ hooks = <<>>
    /\ fetching = <<>>
    /\ searched = NoSearch

(* --------------------------- list helpers ------------------------------ *)

Ids(list) == {list[i].id : i \in DOMAIN list}

\* Array.prototype.find by id: the first match, as a set of at most one row
Find(list, id) ==
    LET hits == {i \in DOMAIN list : list[i].id = id}
    IN  IF hits = {} THEN {}
        ELSE {list[CHOOSE i \in hits : \A j \in hits : i <= j]}

\* mutation: a filter that keeps every element
FilterOutNothing(list, id) == list

\* mutation: a filter that never looks at the first element
FilterOutSparingHead(list, id) ==
    IF list = <<>> THEN <<>>
    ELSE <<Head(list)>> \o SelectSeq(Tail(list), LAMBDA a : a.id # id)

\* prev.filter((a) => a.id !== id)
RECURSIVE FilterOut(_, _)
FilterOut(list, id) ==
    IF list = <<>> THEN <<>>
    ELSE IF Head(list).id = id THEN FilterOut(Tail(list), id)
         ELSE <<Head(list)>> \o FilterOut(Tail(list), id)

\* mutation: a removal that empties the record
WithoutAny(edits, id) == [k \in {} |-> edits[k]]

\* const { [id]: _, ...rest } = prev; return rest
Without(edits, id) == [k \in DOMAIN edits \ {id} |-> edits[k]]

\* mutation: the new entry replaces the whole map
WithAlone(edits, id, value) == [k \in {id} |-> value]

\* { ...prev, [id]: value }
With(edits, id, value) ==
    [k \in DOMAIN edits \cup {id} |-> IF k = id THEN value ELSE edits[k]]

(* ------------------------------ the store ------------------------------ *)

\* mutation: a request that leaves the identifier out
CommandAnonymous(op, id, isin, side, quantity, cb, newId) ==
    [op |-> op, id |-> NoId, isin |-> isin, side |-> side, quantity |-> quantity,
     cb |-> cb, newId |-> newId]

\* a request or an in-flight command, with what its caller's continuation
\* closes over: cb names the continuation, newId the identifier of the
\* optimistic row a creation handler inserted
Command(op, id, isin, side, quantity, cb, newId) ==
    [op |-> op, id |-> id, isin |-> isin, side |-> side, quantity |-> quantity,
     cb |-> cb, newId |-> newId]

\* this.axes.has(id)
Has(id) == id \in Ids(storeAxes)

\* this.axes.set(id, axe): a known key keeps its place, a new one goes last
MapSet(map, axe) ==
    IF axe.id \in Ids(map)
    THEN [i \in DOMAIN map |-> IF map[i].id = axe.id THEN axe ELSE map[i]]
    ELSE Append(map, axe)

\* mutation: a delete that removes nothing
MapDeleteNothing(map, id) == map

\* this.axes.delete(id)
MapDelete(map, id) == FilterOut(map, id)

\* the identifier createOrUpdateAxe stores the record under
RequestId(request) ==
    IF request.id # NoId THEN request.id ELSE StoreId(storeUuid + 1)

\* mutation: a record built with the default side
BuiltAxeBid(request) ==
    LET instrument == CHOOSE i \in findInstrument(request.isin) : TRUE
    IN  [id |-> RequestId(request),
         isin |-> instrument.isin,
         description |-> instrument.description,
         side |-> "Bid",
         quantity |-> request.quantity,
         status |-> IF request.id # NoId /\ Has(request.id)
                    THEN (CHOOSE a \in Find(storeAxes, request.id) : TRUE).status
                    ELSE "ACTIVE"]

\* mutation: an update that resets the record to ACTIVE
BuiltAxeActive(request) ==
    LET instrument == CHOOSE i \in findInstrument(request.isin) : TRUE
    IN  [id |-> RequestId(request),
         isin |-> instrument.isin,
         description |-> instrument.description,
         side |-> request.side,
         quantity |-> request.quantity,
         status |-> "ACTIVE"]

\* the record createOrUpdateAxe builds for a request whose instrument resolves
BuiltAxe(request) ==
    LET instrument == CHOOSE i \in findInstrument(request.isin) : TRUE
        isUpdate == request.id # NoId /\ Has(request.id)
        id == RequestId(request)
        existing == IF isUpdate THEN Find(storeAxes, id) ELSE {}
    IN  [id |-> id,
         isin |-> instrument.isin,
         description |-> instrument.description,
         side |-> request.side,
         quantity |-> request.quantity,
         status |-> IF existing = {} THEN "ACTIVE"
                    ELSE (CHOOSE e \in existing : TRUE).status]

\* the status a status command writes
TargetStatus(op) ==
    CASE op = "pause" -> "PAUSED"
      [] op = "resume" -> "ACTIVE"
      [] op = "block" -> "BLOCKED"
      [] op = "unblock" -> "ACTIVE"

StatusOps == {"pause", "resume", "block", "unblock"}

\* the status the store holds for an identifier ("none" when it holds none)
StatusOf(id) ==
    IF Has(id) THEN (CHOOSE a \in Find(storeAxes, id) : TRUE).status ELSE "none"

\* mutation: a store that turns down a pause of a record that is not ACTIVE
RejectsRepeatedPause(c) ==
    CASE c.op = "createOrUpdate" -> findInstrument(c.isin) = {}
      [] c.op = "pause" -> ~Has(c.id) \/ StatusOf(c.id) # "ACTIVE"
      [] OTHER -> ~Has(c.id)

\* mutation: a store that turns down no status command and no delete
RejectsInstrumentOnly(c) ==
    c.op = "createOrUpdate" /\ c.isin \notin {i.isin : i \in mockInstruments}

\* whether the store rejects the command in its current state
Rejects(c) ==
    CASE c.op = "createOrUpdate" -> findInstrument(c.isin) = {}
      [] c.op = "delete" -> ~Has(c.id)
      [] OTHER -> ~Has(c.id)

\* the error the store throws for the command in its current state
Thrown(c) ==
    CASE c.op = "createOrUpdate" /\ findInstrument(c.isin) = {} -> "Instrument not found"
      [] c.op # "createOrUpdate" /\ ~Has(c.id) -> "Axe not found"
      [] OTHER -> "none"

\* mutation: a listener registered twice over, called twice per broadcast
ReceivedTwice(h, list) == [list |-> list, n |-> h.n + 2]

\* a listener invoked with a list
Received(h, list) == [list |-> list, n |-> h.n + 1]

\* mutation: a broadcast that reaches no listener
BroadcastUnheard(list) ==
    /\ axes' = axes
    /\ snapshot' = snapshot
    /\ held' = held
    /\ UNCHANGED draftVars

\* mutation: a subscription callback that also drops the view's drafts
BroadcastResetting(list) ==
    /\ axes' = list /\ snapshot' = list
    /\ held' = [l \in Listeners |->
                  IF l \in listeners THEN Received(held[l], list) ELSE held[l]]
    /\ pendingEdits' = NoEdits
    /\ newRows' = <<>>
    /\ pinnedRow' = pinnedRow

\* broadcast: every attached listener is invoked with the full list; the
\* listener of a mounted view is that of useBondAxes: setAxes([...newAxes]),
\* which touches no other state of the view
Broadcast(list) ==
    /\ IF view # "API"
       THEN axes' = list /\ snapshot' = list
       ELSE UNCHANGED <<axes, snapshot>>
    /\ UNCHANGED draftVars
    /\ held' = [l \in Listeners |->
                  IF l \in listeners THEN Received(held[l], list) ELSE held[l]]

\* history of a direct caller: the promise of command c settles (ok: resolved,
\* otherwise rejected); status is the record's status before the command,
\* queued the number of calls still waiting behind it, prevOp the command
\* applied to the same identifier in the turn before, if c was waiting then,
\* and prevStatus the status that command found
Settled(c, ok) ==
    lastOutcome' =
        IF view = "API"
        THEN [op |-> c.op, id |-> c.id, ok |-> ok,
              error |-> IF ok THEN "none" ELSE Thrown(c),
              \* return axe
              returned |-> IF ok /\ c.op = "createOrUpdate" THEN BuiltAxe(c) ELSE NoAxe,
              status |-> StatusOf(c.id),
              queued |-> Len(inflight) - 1,
              prevOp |-> IF lastOutcome.ok /\ lastOutcome.id = c.id
                            /\ lastOutcome.queued >= 1
                         THEN lastOutcome.op ELSE "none",
              prevStatus |-> IF lastOutcome.ok /\ lastOutcome.id = c.id
                                /\ lastOutcome.queued >= 1
                             THEN lastOutcome.status ELSE "none"]
        ELSE lastOutcome

(* ------------------- commands taking effect, in call order ------------- *)

\* mutation: a modal that no returning command closes
ModalLeftOpen(c, rejected) == modalOpened

\* the modal after the awaited command of its Save has settled:
\* setModalOpened(false) follows the await, the catch leaves the modal alone
ModalAfter(c, rejected) ==
    IF c.cb = "modal" /\ ~rejected THEN FALSE ELSE modalOpened

\* createOrUpdateAxe after its delay, then the caller's then / catch
\* mutation: catch handlers that only notify
CaughtNotifying(c) == axes

\* mutation: a failure handler that puts back the last list received
CaughtReverting(c) ==
    IF c.cb = "rollbackCreate" THEN FilterOut(axes, c.newId) ELSE snapshot

\* the view's list after the catch handler of a rejected command: the
\* creation handlers remove their optimistic row, the others only notify
Caught(c) ==
    IF c.cb = "rollbackCreate" THEN FilterOut(axes, c.newId) ELSE axes

\* the handler whose catch ran
CatchOf(c) ==
    CASE c.cb = "rollbackCreate" -> "rollbackCreate"
      [] c.cb = "none" -> "commandFailed"
      [] OTHER -> "none"

createOrUpdateAxe ==
    /\ inflight # <<>>
    /\ Head(inflight).op = "createOrUpdate"
    /\ LET c == Head(inflight) IN
        /\ inflight' = Tail(inflight)
        /\ Settled(c, ~Rejects(c))
        /\ IF Rejects(c)
           THEN /\ UNCHANGED <<storeAxes, storeUuid, snapshot, held, draftVars>>
                /\ axes' = Caught(c)
           ELSE /\ storeAxes' = MapSet(storeAxes, BuiltAxe(c))
                /\ storeUuid' = IF c.id = NoId THEN storeUuid + 1 ELSE storeUuid
                /\ Broadcast(storeAxes')
        /\ modalOpened' = ModalAfter(c, Rejects(c))
        \* finally: setSaving(false)
        /\ saving' = IF c.cb = "modal" THEN FALSE ELSE saving
        /\ UNCHANGED loadVars
        /\ lastHandler' = IF Rejects(c) THEN CatchOf(c) ELSE "none"
    /\ UNCHANGED <<view, clientUuid, issued, selectedInstrument, listeners,
                   handles, v1Vars>>

\* pauseAxe / resumeAxe / blockAxe / unblockAxe after their delay: setStatus
setStatus ==
    /\ inflight # <<>>
    /\ Head(inflight).op \in StatusOps
    /\ LET c == Head(inflight) IN
        /\ inflight' = Tail(inflight)
        /\ Settled(c, ~Rejects(c))
        /\ IF Rejects(c)
           THEN /\ UNCHANGED <<storeAxes, snapshot, held, draftVars>>
                /\ axes' = Caught(c)
           ELSE /\ storeAxes' = [i \in DOMAIN storeAxes |->
                                   IF storeAxes[i].id = c.id
                                   THEN [storeAxes[i] EXCEPT !.status = TargetStatus(c.op)]
                                   ELSE storeAxes[i]]
                /\ Broadcast(storeAxes')
        \* V1: setSelectedAxe(null) once the awaited command has returned
        /\ selectedAxe' = IF ~Rejects(c) /\ c.cb = "deselect" THEN NoAxe ELSE selectedAxe
        /\ lastHandler' = IF Rejects(c) THEN CatchOf(c) ELSE "none"
    /\ UNCHANGED loadVars
    /\ UNCHANGED <<view, storeUuid, clientUuid, issued, selectedInstrument,
                   modalOpened, saving, listeners, handles, modalMode>>

\* deleteAxe after its delay
deleteAxe ==
    /\ inflight # <<>>
    /\ Head(inflight).op = "delete"
    /\ LET c == Head(inflight) IN
        /\ inflight' = Tail(inflight)
        /\ Settled(c, ~Rejects(c))
        /\ IF Rejects(c)
           THEN UNCHANGED <<storeAxes, axes, snapshot, held, draftVars>>
           ELSE /\ storeAxes' = MapDelete(storeAxes, c.id)
                /\ Broadcast(storeAxes')
        \* V1: setSelectedAxe(null) once the awaited command has returned
        /\ selectedAxe' = IF ~Rejects(c) /\ c.cb = "deselect" THEN NoAxe ELSE selectedAxe
    /\ UNCHANGED loadVars
    /\ lastHandler' = "none"
    /\ UNCHANGED <<view, storeUuid, clientUuid, issued, selectedInstrument,
                   modalOpened, saving, listeners, handles, modalMode>>

(* --------------------------- what a view renders ----------------------- *)

\* a ?? b on an optional field
Coalesce(a, undefined, b) == IF a = undefined THEN b ELSE a

\* pendingEdits[id], as { } when the record has no entry
EditsOf(edits, id) ==
    IF id \in DOMAIN edits THEN edits[id]
    ELSE [side |-> NoSide, quantity |-> NoQty]

\* one row of the grid: the record's fields and the _isNew flag
GridRow(a, side, quantity, isNew) ==
    [id |-> a.id, isin |-> a.isin, description |-> a.description,
     side |-> side, quantity |-> quantity, status |-> a.status, isNew |-> isNew]

\* the base-list record of a grid row ({ ...axe, _isNew: undefined })
AsAxe(row) ==
    [id |-> row.id, isin |-> row.isin, description |-> row.description,
     side |-> row.side, quantity |-> row.quantity, status |-> row.status]

\* mutation: the base list rendered without the pending edits
OverlayBase(a) ==
    GridRow(a, a.side, a.quantity, FALSE)

\* V4 displayData, V5/V6 rowData: the base list with the pending edits overlaid
Overlay(a) ==
    LET edits == EditsOf(pendingEdits, a.id)
    IN  GridRow(a, Coalesce(edits.side, NoSide, a.side),
                Coalesce(edits.quantity, NoQty, a.quantity), FALSE)

\* the rows handed to the grid (V6's pinned row is rendered apart from them)
rowData ==
    LET drafts == IF view \in NewRowViews
                  THEN [i \in DOMAIN newRows |->
                          GridRow(newRows[i], newRows[i].side, newRows[i].quantity, TRUE)]
                  ELSE <<>>
        display == IF view \in DraftViews
                   THEN [i \in DOMAIN axes |-> Overlay(axes[i])]
                   ELSE [i \in DOMAIN axes |->
                           GridRow(axes[i], axes[i].side, axes[i].quantity, FALSE)]
    IN  drafts \o display

canPause(axe) == axe.status = "ACTIVE"
canResume(axe) == axe.status = "PAUSED"
\* mutation: block enabled for a paused record too
canBlockPaused(axe) == axe.status \in {"ACTIVE", "PAUSED"}

canBlock(axe) == axe.status = "ACTIVE"
canUnblock(axe) == axe.status = "BLOCKED"

\* ActionsRenderer: the buttons of a row that can be clicked
ActionsRenderer(axe) ==
    IF view = "V1" THEN {}
    ELSE IF axe.isNew THEN {"confirmNew", "cancelNew"}
    ELSE IF view \in DraftViews /\ axe.id \in DOMAIN pendingEdits
    THEN {"saveRow", "revertRow", "delete"}
    ELSE (IF canPause(axe) \/ canResume(axe) THEN {"pauseResume"} ELSE {})
         \cup (IF canBlock(axe) \/ canUnblock(axe) THEN {"blockUnblock"} ELSE {})
         \cup {"delete"}

\* the command the pause/resume button issues for the row it is given
PauseResumeOp(axe) == IF axe.status = "PAUSED" THEN "resume" ELSE "pause"
\* the command the block/unblock button issues for the row it is given
BlockUnblockOp(axe) == IF axe.status = "BLOCKED" THEN "unblock" ELSE "block"

\* the call of a command: it joins the queue behind the calls before it
Issue(c) ==
    /\ inflight' = Append(inflight, c)
    /\ issued' = issued + 1

CanIssue == Len(inflight) < MaxInFlight /\ issued < MaxCommands

(* ----------------------- row actions (V2..V6) -------------------------- *)

SetStatusOf(list, id, status) ==
    [i \in DOMAIN list |->
        IF list[i].id = id THEN [list[i] EXCEPT !.status = status] ELSE list[i]]

handlePauseResume ==
    \E i \in DOMAIN rowData :
        LET axe == rowData[i] IN
        /\ "pauseResume" \in ActionsRenderer(axe)
        /\ CanIssue
        /\ axes' = SetStatusOf(axes, axe.id, TargetStatus(PauseResumeOp(axe)))
        /\ Issue(Command(PauseResumeOp(axe), axe.id, "", NoSide, NoQty, "none", NoId))
        /\ UNCHANGED loadVars
        /\ lastHandler' = "none"
        /\ UNCHANGED <<view, storeAxes, storeUuid, clientUuid, snapshot,
                       pendingEdits, newRows, pinnedRow, selectedInstrument,
                       modalOpened, saving, apiVars, v1Vars>>

handleBlockUnblock ==
    \E i \in DOMAIN rowData :
        LET axe == rowData[i] IN
        /\ "blockUnblock" \in ActionsRenderer(axe)
        /\ CanIssue
        /\ axes' = SetStatusOf(axes, axe.id, TargetStatus(BlockUnblockOp(axe)))
        /\ Issue(Command(BlockUnblockOp(axe), axe.id, "", NoSide, NoQty, "none", NoId))
        /\ UNCHANGED loadVars
        /\ lastHandler' = "none"
        /\ UNCHANGED <<view, storeAxes, storeUuid, clientUuid, snapshot,
                       pendingEdits, newRows, pinnedRow, selectedInstrument,
                       modalOpened, saving, apiVars, v1Vars>>

handleDelete ==
    \E i \in DOMAIN rowData :
        LET axe == rowData[i] IN
        /\ "delete" \in ActionsRenderer(axe)
        /\ CanIssue
        /\ pendingEdits' = IF view \in DraftViews
                           THEN Without(pendingEdits, axe.id) ELSE pendingEdits
        /\ axes' = FilterOut(axes, axe.id)
        /\ Issue(Command("delete", axe.id, "", NoSide, NoQty, "none", NoId))
        /\ UNCHANGED loadVars
        /\ lastHandler' = "none"
        /\ UNCHANGED <<view, storeAxes, storeUuid, clientUuid, snapshot,
                       newRows, pinnedRow, selectedInstrument, modalOpened, saving, apiVars, v1Vars>>

(* ------------------------ cell edits on existing rows ------------------ *)

\* the values the editors hand over: a cleared quantity field of a creation
\* form or creation row gives 0
SideInputs == Sides
QuantityInputs == Quantities
FormQuantityInputs == Quantities \cup {0}

\* the grid row after the editor wrote its value into it (event.data)
Edited(axe, field, newValue) ==
    IF field = "side" THEN [axe EXCEPT !.side = newValue]
    ELSE [axe EXCEPT !.quantity = newValue]

\* the grid reports a cell edit only when the value changed
CellEdits(axe, quantities) ==
    {e \in ({"side"} \X SideInputs) \cup ({"quantity"} \X quantities) :
        IF e[1] = "side" THEN e[2] # axe.side ELSE e[2] # axe.quantity}

\* the value the draft comparison takes as the server's
ServerAxe(id) == Find(axes, id)

\* a field of a record or of a pending edit, and the record's other field
Field(r, field) == IF field = "side" THEN r.side ELSE r.quantity
OtherField(field) == IF field = "side" THEN "quantity" ELSE "side"
Undefined(field) == IF field = "side" THEN NoSide ELSE NoQty

\* mutation: the entry is dropped as soon as the edited field alone matches
StagedEditsFieldOnly(prev, serverAxe, field, newValue) ==
    LET existing == EditsOf(prev, serverAxe.id)
        updated == IF field = "side" THEN [existing EXCEPT !.side = newValue]
                   ELSE [existing EXCEPT !.quantity = newValue]
    IN  IF newValue = Field(serverAxe, field)
        THEN Without(prev, serverAxe.id)
        ELSE With(prev, serverAxe.id, updated)

\* the setPendingEdits updater of onCellValueChanged
StagedEdits(prev, serverAxe, field, newValue) ==
    LET existing == EditsOf(prev, serverAxe.id)
        updated == IF field = "side" THEN [existing EXCEPT !.side = newValue]
                   ELSE [existing EXCEPT !.quantity = newValue]
        sideVal == Coalesce(updated.side, NoSide, serverAxe.side)
        qtyVal == Coalesce(updated.quantity, NoQty, serverAxe.quantity)
    IN  IF sideVal = serverAxe.side /\ qtyVal = serverAxe.quantity
        THEN Without(prev, serverAxe.id)
        ELSE With(prev, serverAxe.id, updated)

\* V4..V6 onCellValueChanged on an existing row: the edit is staged
onCellValueChangedDraft ==
    /\ view \in DraftViews
    /\ \E i \in DOMAIN rowData :
        LET axe == rowData[i] IN
        /\ ~axe.isNew
        /\ \E e \in CellEdits(axe, QuantityInputs) :
            /\ ServerAxe(axe.id) # {}
            /\ pendingEdits' = StagedEdits(pendingEdits,
                                   CHOOSE a \in ServerAxe(axe.id) : TRUE, e[1], e[2])
    /\ UNCHANGED loadVars
    /\ lastHandler' = "none"
    /\ UNCHANGED <<view, storeAxes, storeUuid, clientUuid, inflight, issued, axes, snapshot,
                   newRows, pinnedRow, selectedInstrument, modalOpened, saving, apiVars, v1Vars>>

\* V2, V3 onCellValueChanged on an existing row: written through at once
onCellValueChangedInline ==
    /\ view \in InlineViews
    /\ CanIssue
    /\ \E i \in DOMAIN rowData :
        LET axe == rowData[i] IN
        /\ ~axe.isNew
        /\ \E e \in CellEdits(axe, QuantityInputs) :
            LET data == Edited(axe, e[1], e[2]) IN
            /\ axes' = [k \in DOMAIN axes |->
                          IF axes[k].id = data.id THEN AsAxe(data) ELSE axes[k]]
            /\ Issue(Command("createOrUpdate", data.id, data.isin, data.side,
                             data.quantity, "none", NoId))
    /\ UNCHANGED loadVars
    /\ lastHandler' = "none"
    /\ UNCHANGED <<view, storeAxes, storeUuid, clientUuid, snapshot, pendingEdits,
                   newRows, pinnedRow, selectedInstrument, modalOpened, saving, apiVars, v1Vars>>

\* V4..V6 handleSaveRow
handleSaveRow ==
    \E i \in DOMAIN rowData :
        LET axe == rowData[i] IN
        /\ "saveRow" \in ActionsRenderer(axe)
        /\ CanIssue
        /\ axe.id \in DOMAIN pendingEdits
        /\ ServerAxe(axe.id) # {}
        /\ LET edits == pendingEdits[axe.id]
               serverAxe == CHOOSE a \in ServerAxe(axe.id) : TRUE
               updatedSide == Coalesce(edits.side, NoSide, serverAxe.side)
               updatedQty == Coalesce(edits.quantity, NoQty, serverAxe.quantity)
           IN  /\ axes' = [k \in DOMAIN axes |->
                             IF axes[k].id = axe.id
                             THEN [axes[k] EXCEPT !.side = updatedSide,
                                                  !.quantity = updatedQty]
                             ELSE axes[k]]
               /\ pendingEdits' = Without(pendingEdits, axe.id)
               /\ Issue(Command("createOrUpdate", axe.id, serverAxe.isin,
                                updatedSide, updatedQty, "none", NoId))
        /\ UNCHANGED loadVars
        /\ lastHandler' = "none"
        /\ UNCHANGED <<view, storeAxes, storeUuid, clientUuid, snapshot, newRows,
                       pinnedRow, selectedInstrument, modalOpened, saving, apiVars, v1Vars>>

\* V4..V6 handleRevertRow
handleRevertRow ==
    \E i \in DOMAIN rowData :
        LET axe == rowData[i] IN
        /\ "revertRow" \in ActionsRenderer(axe)
        /\ pendingEdits' = Without(pendingEdits, axe.id)
        /\ UNCHANGED loadVars
        /\ lastHandler' = "revertRow"
        /\ UNCHANGED <<view, storeAxes, storeUuid, clientUuid, inflight, issued, axes,
                       snapshot, newRows, pinnedRow, selectedInstrument,
                       modalOpened, saving, apiVars, v1Vars>>

\* the state a row save works on: what it reads through functional updaters
\* and what it appends to
ViewState == [axes |-> axes, pendingEdits |-> pendingEdits,
              inflight |-> inflight, issued |-> issued]

\* handleSaveRow called from the Save All loop for identifier id: edits and
\* serverAxe come from the render's pendingEdits and axes, the two setters
\* work on the state st the earlier calls of the loop have left
SavedRow(st, id) ==
    IF id \notin DOMAIN pendingEdits \/ ServerAxe(id) = {} THEN st
    ELSE LET edits == pendingEdits[id]
             serverAxe == CHOOSE a \in ServerAxe(id) : TRUE
             updatedSide == Coalesce(edits.side, NoSide, serverAxe.side)
             updatedQty == Coalesce(edits.quantity, NoQty, serverAxe.quantity)
         IN  [axes |-> [k \in DOMAIN st.axes |->
                          IF st.axes[k].id = id
                          THEN [st.axes[k] EXCEPT !.side = updatedSide,
                                                  !.quantity = updatedQty]
                          ELSE st.axes[k]],
              pendingEdits |-> Without(st.pendingEdits, id),
              inflight |-> Append(st.inflight,
                                  Command("createOrUpdate", id, serverAxe.isin,
                                          updatedSide, updatedQty, "none", NoId)),
              issued |-> st.issued + 1]

\* for (const axeId of Object.keys(pendingEdits)) { ... }
RECURSIVE SavedAll(_, _)
SavedAll(st, order) ==
    IF order = <<>> THEN st
    ELSE SavedAll(IF Find(axes, Head(order)) # {}
                  THEN SavedRow(st, Head(order)) ELSE st,
                  Tail(order))

\* the orders in which the keys of a record can be visited
Orders(keys) ==
    {o \in [1..Cardinality(keys) -> keys] :
        \A i, j \in DOMAIN o : i # j => o[i] # o[j]}

\* V4..V6 Save All
handleSaveAll ==
    /\ view \in DraftViews
    /\ DOMAIN pendingEdits # {}
    /\ \E order \in Orders(DOMAIN pendingEdits) :
        LET st == SavedAll(ViewState, order) IN
        /\ Len(st.inflight) <= MaxInFlight
        /\ st.issued <= MaxCommands
        /\ axes' = st.axes
        /\ pendingEdits' = st.pendingEdits
        /\ inflight' = st.inflight
        /\ issued' = st.issued
    /\ UNCHANGED loadVars
    /\ lastHandler' = "none"
    /\ UNCHANGED <<view, storeAxes, storeUuid, clientUuid, snapshot, newRows,
                   pinnedRow, selectedInstrument, modalOpened, saving, apiVars, v1Vars>>

\* V4..V6 Revert All: setPendingEdits({})
revertAll ==
    /\ view \in DraftViews
    /\ DOMAIN pendingEdits # {}
    /\ pendingEdits' = NoEdits
    /\ UNCHANGED loadVars
    /\ lastHandler' = "none"
    /\ UNCHANGED <<view, storeAxes, storeUuid, clientUuid, inflight, issued, axes,
                   snapshot, newRows, pinnedRow, selectedInstrument, modalOpened,
                   saving, apiVars, v1Vars>>

(* ------------------------------ creation ------------------------------- *)

\* creates that will draw an identifier from the store's uuidv4()
PendingCreates == Cardinality({i \in DOMAIN inflight :
                     inflight[i].op = "createOrUpdate" /\ inflight[i].id = NoId})

CanCreate == CanIssue /\ storeUuid + PendingCreates < MaxStoreIds

\* a create whose code does not resolve draws no identifier
CanCreateFor(isin) == CanIssue /\ (findInstrument(isin) = {} \/ CanCreate)

\* the record a creation handler inserts optimistically
OptimisticAxe(id, draft) ==
    [id |-> id, isin |-> draft.isin, description |-> draft.description,
     side |-> draft.side, quantity |-> draft.quantity, status |-> "ACTIVE"]

\* V2, V4 toolbar: an instrument is picked in the selector, or the text cleared
handleAutocompleteChange ==
    /\ view \in ModalViews
    /\ \E isin \in {i.isin : i \in mockInstruments} \cup {""} :
        /\ isin # selectedInstrument
        /\ selectedInstrument' = isin
    /\ UNCHANGED loadVars
    /\ lastHandler' = "none"
    /\ UNCHANGED <<view, storeAxes, storeUuid, clientUuid, inflight, issued, axes, snapshot,
                   pendingEdits, newRows, pinnedRow, modalOpened, saving, apiVars, v1Vars>>

\* V2, V4 "Create Axe": enabled with an instrument selected
handleCreate ==
    /\ view \in ModalViews
    /\ selectedInstrument # ""
    /\ ~modalOpened
    /\ modalOpened' = TRUE
    /\ modalMode' = "create"
    /\ UNCHANGED loadVars
    /\ lastHandler' = "none"
    /\ UNCHANGED <<view, storeAxes, storeUuid, clientUuid, inflight, issued, axes, snapshot,
                   pendingEdits, newRows, pinnedRow, selectedInstrument, saving, apiVars,
                   selectedAxe>>

\* the modal's Cancel
onClose ==
    /\ view \in ModalViews
    /\ modalOpened
    /\ modalOpened' = FALSE
    /\ UNCHANGED loadVars
    /\ lastHandler' = "none"
    /\ UNCHANGED <<view, storeAxes, storeUuid, clientUuid, inflight, issued, axes, snapshot,
                   pendingEdits, newRows, pinnedRow, selectedInstrument, saving, apiVars, v1Vars>>

\* AxeModal.handleSave, then the view's handleSave / handleModalSave; side and
\* quantity are what the form holds, and the Save button is inert while loading
\* AxeModal: the code the form shows, of the selected row when editing
displayIsin ==
    IF modalMode = "edit"
    THEN (IF selectedAxe = NoAxe THEN "" ELSE selectedAxe.isin)
    ELSE selectedInstrument

handleSave ==
    /\ view \in ModalViews
    /\ modalOpened
    /\ ~saving
    /\ displayIsin # ""
    /\ IF modalMode = "edit" THEN CanIssue ELSE CanCreate
    /\ \E side \in SideInputs, quantity \in FormQuantityInputs :
        Issue(Command("createOrUpdate",
                      IF modalMode = "edit" THEN selectedAxe.id ELSE NoId,
                      displayIsin, side, quantity, "modal", NoId))
    /\ saving' = TRUE
    /\ UNCHANGED loadVars
    /\ lastHandler' = IF view = "V1" THEN "saveClicked" ELSE "none"
    /\ UNCHANGED <<view, storeAxes, storeUuid, clientUuid, axes, snapshot,
                   pendingEdits, newRows, pinnedRow, selectedInstrument, modalOpened,
                   apiVars, v1Vars>>

(* ------------------------ V1: the global toolbar ----------------------- *)

\* the grid's selection event: a click on a row, or the selection given up
onSelectionChanged ==
    /\ view = "V1"
    /\ \E row \in {axes[i] : i \in DOMAIN axes} \cup {NoAxe} :
        /\ row # selectedAxe
        /\ selectedAxe' = row
    /\ UNCHANGED loadVars
    /\ lastHandler' = "none"
    /\ UNCHANGED <<view, storeAxes, storeUuid, clientUuid, inflight, issued, axes, snapshot,
                   pendingEdits, newRows, pinnedRow, selectedInstrument, modalOpened,
                   saving, apiVars, modalMode>>

\* V1 "Update": enabled with a row selected
handleUpdate ==
    /\ view = "V1"
    /\ selectedAxe # NoAxe
    /\ ~modalOpened
    /\ modalMode' = "edit"
    /\ modalOpened' = TRUE
    /\ UNCHANGED loadVars
    /\ lastHandler' = "none"
    /\ UNCHANGED <<view, storeAxes, storeUuid, clientUuid, inflight, issued, axes, snapshot,
                   pendingEdits, newRows, pinnedRow, selectedInstrument, saving, apiVars,
                   selectedAxe>>

\* V1 Pause / Resume, Block / Unblock and the confirmed Delete: the command
\* is chosen from the selected row object and awaited; nothing is written to
\* the list
IssueForSelected(op) ==
    /\ view = "V1"
    /\ selectedAxe # NoAxe
    /\ CanIssue
    /\ Issue(Command(op, selectedAxe.id, "", NoSide, NoQty, "deselect", NoId))
    /\ UNCHANGED loadVars
    /\ lastHandler' = "none"
    /\ UNCHANGED <<view, storeAxes, storeUuid, clientUuid, axes, snapshot,
                   pendingEdits, newRows, pinnedRow, selectedInstrument, modalOpened,
                   saving, apiVars, v1Vars>>

handlePauseResumeV1 ==
    /\ selectedAxe # NoAxe
    /\ canPause(selectedAxe) \/ canResume(selectedAxe)
    /\ IssueForSelected(PauseResumeOp(selectedAxe))

handleBlockUnblockV1 ==
    /\ selectedAxe # NoAxe
    /\ canBlock(selectedAxe) \/ canUnblock(selectedAxe)
    /\ IssueForSelected(BlockUnblockOp(selectedAxe))

handleDeleteV1 ==
    /\ selectedAxe # NoAxe
    /\ IssueForSelected("delete")

\* V3, V5 "Add Axe"
addNewRow ==
    /\ view \in NewRowViews
    /\ clientUuid < MaxClientIds
    /\ Len(newRows) < MaxNewRows
    /\ clientUuid' = clientUuid + 1
    /\ newRows' = Append(newRows,
          [id |-> ClientId(clientUuid + 1), isin |-> "", description |-> "",
           side |-> "Bid", quantity |-> DEFAULT_QUANTITY, status |-> "ACTIVE"])
    /\ UNCHANGED loadVars
    /\ lastHandler' = "none"
    /\ UNCHANGED <<view, storeAxes, storeUuid, inflight, issued, axes, snapshot,
                   pendingEdits, pinnedRow, selectedInstrument, modalOpened, saving, apiVars, v1Vars>>

cancelNewRow ==
    /\ \E i \in DOMAIN rowData :
        /\ "cancelNew" \in ActionsRenderer(rowData[i])
        /\ newRows' = FilterOut(newRows, rowData[i].id)
    /\ UNCHANGED loadVars
    /\ lastHandler' = "none"
    /\ UNCHANGED <<view, storeAxes, storeUuid, clientUuid, inflight, issued, axes, snapshot,
                   pendingEdits, pinnedRow, selectedInstrument, modalOpened, saving, apiVars, v1Vars>>

\* V3, V5 onCellValueChanged on a new row: side or quantity
onCellValueChangedNew ==
    /\ \E i \in DOMAIN rowData :
        LET axe == rowData[i] IN
        /\ axe.isNew
        /\ \E e \in CellEdits(axe, FormQuantityInputs) :
            newRows' = [k \in DOMAIN newRows |->
                          IF newRows[k].id = axe.id
                          THEN AsAxe(Edited(axe, e[1], e[2])) ELSE newRows[k]]
    /\ UNCHANGED loadVars
    /\ lastHandler' = "none"
    /\ UNCHANGED <<view, storeAxes, storeUuid, clientUuid, inflight, issued, axes, snapshot,
                   pendingEdits, pinnedRow, selectedInstrument, modalOpened, saving, apiVars, v1Vars>>

\* the instrument editor of a new row: a suggestion is picked (V3 handleSelect,
\* V5 updateNewRowInstrument), or in V3 the typed text is kept as the code
editNewRowInstrument ==
    /\ view \in NewRowViews
    /\ \E k \in DOMAIN newRows :
        \/ \E inst \in mockInstruments :
            /\ newRows[k].isin # inst.isin
            /\ newRows' = [newRows EXCEPT ![k].isin = inst.isin,
                                          ![k].description = inst.description]
        \/ /\ view = "V3"
           /\ \E text \in TypedCodes :
                /\ newRows[k].isin # text
                /\ newRows' = [newRows EXCEPT ![k].isin = text]
    /\ UNCHANGED loadVars
    /\ lastHandler' = "none"
    /\ UNCHANGED <<view, storeAxes, storeUuid, clientUuid, inflight, issued, axes, snapshot,
                   pendingEdits, pinnedRow, selectedInstrument, modalOpened, saving, apiVars, v1Vars>>

\* V3, V5 confirmNewRow, for a draft that passes the validation
confirmNewRow ==
    /\ \E i \in DOMAIN rowData :
        LET axe == rowData[i] IN
        /\ "confirmNew" \in ActionsRenderer(axe)
        /\ axe.isin # ""
        /\ ~(axe.quantity = 0 \/ axe.quantity <= 0)
        /\ CanCreateFor(axe.isin)
        /\ newRows' = FilterOut(newRows, axe.id)
        /\ axes' = <<OptimisticAxe(axe.id, axe)>> \o axes
        /\ Issue(Command("createOrUpdate", NoId, axe.isin, axe.side, axe.quantity,
                         "rollbackCreate", axe.id))
    /\ UNCHANGED loadVars
    /\ lastHandler' = "none"
    /\ UNCHANGED <<view, storeAxes, storeUuid, clientUuid, snapshot, pendingEdits,
                   pinnedRow, selectedInstrument, modalOpened, saving, apiVars, v1Vars>>

\* V6: the pinned row's buttons are enabled when it can be created
canCreatePinned == pinnedRow.isin # "" /\ pinnedRow.quantity >= 1

\* V6 updatePinnedRowInstrument: a suggestion is picked in the pinned row
updatePinnedRowInstrument ==
    /\ view = "V6"
    /\ clientUuid < MaxClientIds
    /\ \E inst \in mockInstruments :
        /\ pinnedRow.isin # inst.isin
        /\ pinnedRow' = [pinnedRow EXCEPT !.isin = inst.isin,
                                          !.description = inst.description]
    /\ UNCHANGED loadVars
    /\ lastHandler' = "none"
    /\ UNCHANGED <<view, storeAxes, storeUuid, clientUuid, inflight, issued, axes, snapshot,
                   pendingEdits, newRows, selectedInstrument, modalOpened, saving, apiVars, v1Vars>>

\* V6 onCellValueChanged on the pinned row: side or quantity, editable once
\* an instrument is set
onCellValueChangedPinned ==
    /\ view = "V6"
    /\ clientUuid < MaxClientIds
    /\ pinnedRow.isin # ""
    /\ \E e \in CellEdits(pinnedRow, FormQuantityInputs) :
        pinnedRow' = Edited(pinnedRow, e[1], e[2])
    /\ UNCHANGED loadVars
    /\ lastHandler' = "none"
    /\ UNCHANGED <<view, storeAxes, storeUuid, clientUuid, inflight, issued, axes, snapshot,
                   pendingEdits, newRows, selectedInstrument, modalOpened, saving, apiVars, v1Vars>>

ClearedPinnedRow ==
    [pinnedRow EXCEPT !.isin = "", !.description = "", !.side = "Bid",
                      !.quantity = DEFAULT_QUANTITY]

\* V6 clearPinnedRow, from the pinned row's Clear button
clearPinnedRow ==
    /\ view = "V6"
    /\ clientUuid < MaxClientIds
    /\ canCreatePinned
    /\ pinnedRow' = ClearedPinnedRow
    /\ UNCHANGED loadVars
    /\ lastHandler' = "none"
    /\ UNCHANGED <<view, storeAxes, storeUuid, clientUuid, inflight, issued, axes, snapshot,
                   pendingEdits, newRows, selectedInstrument, modalOpened, saving, apiVars, v1Vars>>

\* V6 handleCreatePinned
handleCreatePinned ==
    /\ view = "V6"
    /\ canCreatePinned
    /\ pinnedRow.isin # ""
    /\ ~(pinnedRow.quantity = 0 \/ pinnedRow.quantity < 1)
    /\ clientUuid < MaxClientIds
    /\ CanCreate
    /\ LET newId == ClientId(clientUuid + 1)
           optimisticAxe == OptimisticAxe(newId, pinnedRow)
       IN  /\ clientUuid' = clientUuid + 1
           /\ axes' = <<optimisticAxe>> \o axes
           /\ Issue(Command("createOrUpdate", NoId, pinnedRow.isin, pinnedRow.side,
                            pinnedRow.quantity, "rollbackCreate", newId))
    /\ pinnedRow' = ClearedPinnedRow
    /\ UNCHANGED loadVars
    /\ lastHandler' = "none"
    /\ UNCHANGED <<view, storeAxes, storeUuid, snapshot, pendingEdits, newRows,
                   selectedInstrument, modalOpened, saving, apiVars, v1Vars>>

(* --------------------------- the specification ------------------------- *)

Next ==
    \/ createOrUpdateAxe
    \/ setStatus
    \/ deleteAxe
    \/ handlePauseResume
    \/ handleBlockUnblock
    \/ handleDelete
    \/ onCellValueChangedDraft
    \/ onCellValueChangedInline
    \/ handleSaveRow
    \/ handleRevertRow
    \/ handleSaveAll
    \/ revertAll
    \/ handleAutocompleteChange
    \/ handleCreate
    \/ onClose
    \/ handleSave
    \/ onSelectionChanged
    \/ handleUpdate
    \/ handlePauseResumeV1
    \/ handleBlockUnblockV1
    \/ handleDeleteV1
    \/ addNewRow
    \/ cancelNewRow
    \/ onCellValueChangedNew
    \/ editNewRowInstrument
    \/ confirmNewRow
    \/ updatePinnedRowInstrument
    \/ onCellValueChangedPinned
    \/ clearPinnedRow
    \/ handleCreatePinned

Spec == Init /\ [][Next]_vars

(* ------------------ the service used directly, without a view ---------- *)

\* subscriptions and calls a direct caller makes in one run
MaxSubscribes == 2
MaxApiCalls == 3

InitStore ==
    /\ view = "API"
    /\ storeAxes = <<>>
    /\ storeUuid = 0
    /\ clientUuid = 0
    /\ inflight = <<>>
    /\ issued = 0
    /\ axes = <<>>
    /\ snapshot = <<>>
    /\ pendingEdits = NoEdits
    /\ newRows = <<>>
    /\ pinnedRow = DEFAULT_PINNED_ROW
    /\ selectedInstrument = ""
    /\ modalOpened = FALSE
    /\ saving = FALSE
    /\ listeners = {}
    /\ handles = <<>>
    /\ held = [l \in Listeners |-> NeverInvoked]
    /\ lastOutcome = NoOutcome
    /\ lastHandler = "none"
    /\ selectedAxe = NoAxe
    /\ modalMode = "create"
    /\ directory = <<>>
    /\ hooks = <<>>
    /\ fetching = <<>>
    /\ searched = NoSearch

\* what no view action touches while the service is used directly
viewVars == <<view, clientUuid, axes, snapshot, pendingEdits, newRows, pinnedRow,
              selectedInstrument, modalOpened, saving, selectedAxe, modalMode>>

\* the identifiers a direct caller passes: ones the store has handed out, and
\* one of its own making
ApiIds == {StoreId(n) : n \in 1..storeUuid} \cup {ClientId(1)}
ApiCodes == {i.isin : i \in mockInstruments} \cup TypedCodes
\* the side and quantity of a request: two requests that differ in both
ApiRequests == {[side |-> "Bid", quantity |-> DEFAULT_QUANTITY],
                [side |-> "Offer", quantity |-> OTHER_QUANTITY]}

\* mutation: subscribe without the initial invocation
SubscribedSilently(l) == held

\* subscribe: listener(this.getAxesArray()), synchronously
Subscribed(l) == [held EXCEPT ![l] = Received(held[l], storeAxes)]

\* mutation: a closure that deregisters nothing
DetachedNever(l) == listeners

\* this.listeners.delete(listener)
Detached(l) == listeners \ {l}

\* subscribe(listener): the Set takes the listener, which is invoked at once;
\* the caller keeps the returned closure
subscribe ==
    /\ view = "API"
    /\ Len(handles) < MaxSubscribes
    /\ \E l \in Listeners :
        /\ listeners' = listeners \cup {l}
        /\ held' = Subscribed(l)
        /\ handles' = Append(handles, [listener |-> l, called |-> FALSE])
    /\ UNCHANGED loadVars
    /\ lastHandler' = "none"
    /\ UNCHANGED <<viewVars, storeAxes, storeUuid, inflight, issued, lastOutcome>>

\* the closure subscribe returned, invoked by its holder
unsubscribe ==
    /\ view = "API"
    /\ \E k \in DOMAIN handles :
        /\ ~handles[k].called
        /\ listeners' = Detached(handles[k].listener)
        /\ handles' = [handles EXCEPT ![k].called = TRUE]
    /\ UNCHANGED loadVars
    /\ lastHandler' = "none"
    /\ UNCHANGED <<viewVars, storeAxes, storeUuid, inflight, issued, held,
                   lastOutcome>>

\* a direct call of createOrUpdateAxe(request)
callCreateOrUpdate ==
    /\ view = "API"
    /\ issued < MaxApiCalls
    /\ \E id \in ApiIds \cup {NoId}, isin \in ApiCodes, request \in ApiRequests :
        /\ IF id = NoId THEN CanCreate ELSE CanIssue
        /\ Issue(Command("createOrUpdate", id, isin, request.side,
                         request.quantity, "none", NoId))
    /\ UNCHANGED loadVars
    /\ lastHandler' = "none"
    /\ UNCHANGED <<viewVars, storeAxes, storeUuid, listeners, handles, held,
                   lastOutcome>>

\* a direct call of pauseAxe / resumeAxe / blockAxe / unblockAxe
callStatus ==
    /\ view = "API"
    /\ issued < MaxApiCalls
    /\ CanIssue
    /\ \E op \in StatusOps, id \in ApiIds :
        Issue(Command(op, id, "", NoSide, NoQty, "none", NoId))
    /\ UNCHANGED loadVars
    /\ lastHandler' = "none"
    /\ UNCHANGED <<viewVars, storeAxes, storeUuid, listeners, handles, held,
                   lastOutcome>>

\* a direct call of deleteAxe
callDelete ==
    /\ view = "API"
    /\ issued < MaxApiCalls
    /\ CanIssue
    /\ \E id \in ApiIds :
        Issue(Command("delete", id, "", NoSide, NoQty, "none", NoId))
    /\ UNCHANGED loadVars
    /\ lastHandler' = "none"
    /\ UNCHANGED <<viewVars, storeAxes, storeUuid, listeners, handles, held,
                   lastOutcome>>

NextStore ==
    \/ subscribe
    \/ unsubscribe
    \/ callCreateOrUpdate
    \/ callStatus
    \/ callDelete
    \/ createOrUpdateAxe
    \/ setStatus
    \/ deleteAxe

StoreSpec == InitStore /\ [][NextStore]_vars

(* ----------------- the service with one listener attached -------------- *)

\* the service after one subscribe(listener): the listener has been called
\* with the empty set
InitLive ==
    /\ view = "API"
    /\ storeAxes = <<>>
    /\ storeUuid = 0
    /\ clientUuid = 0
    /\ inflight = <<>>
    /\ issued = 0
    /\ axes = <<>>
    /\ snapshot = <<>>
    /\ pendingEdits = NoEdits
    /\ newRows = <<>>
    /\ pinnedRow = DEFAULT_PINNED_ROW
    /\ selectedInstrument = ""
    /\ modalOpened = FALSE
    /\ saving = FALSE
    /\ listeners = {"L1"}
    /\ handles = <<[listener |-> "L1", called |-> FALSE]>>
    /\ held = [l \in Listeners |->
                 IF l = "L1" THEN Received(NeverInvoked, <<>>) ELSE NeverInvoked]
    /\ lastOutcome = NoOutcome
    /\ lastHandler = "none"
    /\ selectedAxe = NoAxe
    /\ modalMode = "create"
    /\ directory = <<>>
    /\ hooks = <<>>
    /\ fetching = <<>>
    /\ searched = NoSearch

\* simulateDelay's timer fires: the oldest command in flight takes effect
\* or is turned down
simulateDelay == createOrUpdateAxe \/ setStatus \/ deleteAxe

NextLive ==
    \/ callCreateOrUpdate
    \/ callStatus
    \/ callDelete
    \/ createOrUpdateAxe
    \/ setStatus
    \/ deleteAxe

\* a timer that was set fires
LiveSpec == InitLive /\ [][NextLive]_vars /\ WF_vars(simulateDelay)

(* --------------------- the instrument directory hook ------------------- *)

\* hook instances mounted in one run
MaxMounts == 2
\* instruments in the largest directory, above the search cap
MaxDirectory == 60
\* characters in a query
MaxQueryLen == 2

\* slice(0, 50): the cap on search results
SEARCH_LIMIT == 50
\* query.length < 2: shorter queries find nothing
MIN_QUERY_LENGTH == 2

QueryChars == {"U", "s", "d", "0"}
Queries == UNION {[1..n -> QueryChars] : n \in 0..MaxQueryLen}

\* a directory entry; maturity tells apart entries with the same text
BondInstrument(isin, description, maturity) ==
    [isin |-> isin, description |-> description, maturity |-> maturity]

\* a directory of three, one code in capitals only, one description in
\* mixed case
FewInstruments ==
    << BondInstrument(<<"U", "S", "0">>, <<"T", "s", "y">>, 1),
       BondInstrument(<<"D", "E", "0">>, <<"B", "u", "n", "d">>, 2),
       BondInstrument(<<"F", "R", "1">>, <<"O", "A", "T", " ", "u", "D">>, 3) >>

\* a directory with more matches than the cap, every seventh entry of
\* another issuer
generateInstruments(count) ==
    [n \in 1..count |->
        IF n % 7 = 0
        THEN BondInstrument(<<"D", "E", "0">>, <<"B", "u", "n", "d">>, n)
        ELSE BondInstrument(<<"U", "S", "0">>, <<"T", "s", "y">>, n)]

Directories == {<<>>, FewInstruments, generateInstruments(MaxDirectory)}

\* mutation: text compared as typed
toLowerCaseNot(text) == text

\* String.prototype.toLowerCase on the characters in use
toLowerCase(text) ==
    [k \in 1..Len(text) |->
        CASE text[k] = "U" -> "u"
          [] text[k] = "S" -> "s"
          [] text[k] = "D" -> "d"
          [] text[k] = "E" -> "e"
          [] text[k] = "F" -> "f"
          [] text[k] = "R" -> "r"
          [] text[k] = "T" -> "t"
          [] text[k] = "B" -> "b"
          [] text[k] = "O" -> "o"
          [] text[k] = "A" -> "a"
          [] OTHER -> text[k]]

\* String.prototype.includes
includes(text, part) ==
    \E k \in 0..(Len(text) - Len(part)) : SubSeq(text, k + 1, k + Len(part)) = part

\* Array.prototype.slice(start, end)
slice(list, start, end) ==
    SubSeq(list, start + 1, IF end < Len(list) THEN end ELSE Len(list))

\* useBondInstruments.searchInstruments over the hook's instruments
searchInstruments(instruments, query) ==
    IF query = <<>> \/ Len(query) < MIN_QUERY_LENGTH
    THEN <<>>
    ELSE LET lower == toLowerCase(query)
             matches(i) == \/ includes(toLowerCase(i.isin), lower)
                           \/ includes(toLowerCase(i.description), lower)
         IN slice(SelectSeq(instruments, matches), 0, SEARCH_LIMIT)

\* a hook instance as useState leaves it before its effect has run
NewHook == [cancelled |-> FALSE, loading |-> TRUE, instruments |-> <<>>]

\* everything but the hook: untouched by mounting, loading and searching
axeVars == <<view, storeAxes, storeUuid, clientUuid, inflight, issued, axes,
             snapshot, pendingEdits, newRows, pinnedRow, selectedInstrument,
             modalOpened, saving, listeners, handles, held, lastOutcome,
             lastHandler, selectedAxe, modalMode>>

InitHook ==
    /\ view = "HOOK"
    /\ storeAxes = <<>>
    /\ storeUuid = 0
    /\ clientUuid = 0
    /\ inflight = <<>>
    /\ issued = 0
    /\ axes = <<>>
    /\ snapshot = <<>>
    /\ pendingEdits = NoEdits
    /\ newRows = <<>>
    /\ pinnedRow = DEFAULT_PINNED_ROW
    /\ selectedInstrument = ""
    /\ modalOpened = FALSE
    /\ saving = FALSE
    /\ listeners = {}
    /\ handles = <<>>
    /\ held = [l \in Listeners |-> NeverInvoked]
    /\ lastOutcome = NoOutcome
    /\ lastHandler = "none"
    /\ selectedAxe = NoAxe
    /\ modalMode = "create"
    /\ directory \in Directories
    /\ hooks = <<>>
    /\ fetching = <<>>
    /\ searched = NoSearch

\* a component using the hook mounts: the effect calls fetchInstruments()
mount ==
    /\ view = "HOOK"
    /\ Len(hooks) < MaxMounts
    /\ hooks' = Append(hooks, NewHook)
    /\ fetching' = Append(fetching, Len(hooks) + 1)
    /\ UNCHANGED <<directory, searched>>
    /\ UNCHANGED axeVars

\* the component unmounts: the effect's cleanup sets cancelled
unmount ==
    /\ view = "HOOK"
    /\ \E k \in DOMAIN hooks :
        /\ ~hooks[k].cancelled
        /\ hooks' = [hooks EXCEPT ![k].cancelled = TRUE]
    /\ UNCHANGED <<directory, fetching, searched>>
    /\ UNCHANGED axeVars

\* the oldest fetchInstruments() resolves after SIMULATED_DELAY_MS: the
\* hook takes the data unless it was cancelled
fetchInstruments ==
    /\ view = "HOOK"
    /\ fetching # <<>>
    /\ LET k == Head(fetching)
       IN hooks' = IF hooks[k].cancelled
                   THEN hooks
                   ELSE [hooks EXCEPT ![k].instruments = directory,
                                      ![k].loading = FALSE]
    /\ fetching' = Tail(fetching)
    /\ UNCHANGED <<directory, searched>>
    /\ UNCHANGED axeVars

\* a mounted component searches with the text typed so far
search ==
    /\ view = "HOOK"
    /\ \E k \in DOMAIN hooks, query \in Queries :
        /\ ~hooks[k].cancelled
        /\ searched' = [hook |-> k, query |-> query,
                        result |-> searchInstruments(hooks[k].instruments, query)]
    /\ UNCHANGED <<directory, hooks, fetching>>
    /\ UNCHANGED axeVars

NextHook ==
    \/ mount
    \/ unmount
    \/ fetchInstruments
    \/ search

HookSpec == InitHook /\ [][NextHook]_vars

(* ------------------------------ properties ----------------------------- *)

\* the rendered rows that stand for records (not new-row drafts)
RecordRows == {i \in DOMAIN rowData : ~rowData[i].isNew}

\* a command leaves the queue and the store applies it / turns it down
Resolves == inflight # <<>> /\ inflight' = Tail(inflight)
Applied == Resolves /\ ~Rejects(Head(inflight))
Rejected == Resolves /\ Rejects(Head(inflight))

\* the status table: the commands allowed from each status
StatusTable(status) ==
    CASE status = "ACTIVE" -> {"pause", "block"}
      [] status = "PAUSED" -> {"resume"}
      [] status = "BLOCKED" -> {"unblock"}

\* the status commands a row's enabled buttons would issue
OfferedStatusCommands(axe) ==
    (IF "pauseResume" \in ActionsRenderer(axe) THEN {PauseResumeOp(axe)} ELSE {})
    \cup (IF "blockUnblock" \in ActionsRenderer(axe) THEN {BlockUnblockOp(axe)} ELSE {})

\* C1: in a draft-staging view (V4, V5, V6) every identifier that carries a
\* Pending Edit is an identifier of the last snapshot the view received;
\* stated here for the states in which no command is in flight any more.
PendingEditsWithinSnapshot ==
    (view \in DraftViews /\ inflight = <<>>)
        => DOMAIN pendingEdits \subseteq Ids(snapshot)

\* C2: when the store rejects the delete of a record it had handed out, the
\* deleted record is back in the view's list after the rejection.
RejectedDeleteRestoresRow ==
    [][(Rejected /\ Head(inflight).op = "delete"
            /\ IsStoreGenerated(Head(inflight).id))
          => Head(inflight).id \in Ids(axes')]_vars

\* C3: immediately after the store applies a successful command, the
\* subscriber's list is exactly the store's full record set.
SubscriberHoldsFullSetAfterSuccess ==
    [][Applied => (axes' = storeAxes' /\ snapshot' = storeAxes')]_vars

SuccessDelivered ==
    /\ inflight = <<>>
    /\ \E i \in DOMAIN storeAxes : storeAxes[i].status = "PAUSED"
    /\ axes = storeAxes

\* C4: the store never moves a record from Paused to Blocked or from Blocked
\* to Paused.
NoPausedBlockedSwap ==
    [][\A i \in DOMAIN storeAxes : \A j \in DOMAIN storeAxes' :
          storeAxes[i].id = storeAxes'[j].id
          => <<storeAxes[i].status, storeAxes'[j].status>>
                \notin {<<"PAUSED", "BLOCKED">>, <<"BLOCKED", "PAUSED">>}]_vars

\* the record rows that render an actions cell: V1 has a toolbar for the
\* selected record instead
ActionRows == {i \in RecordRows : view # "V1"}

DraftShownOverBase ==
    view \in DraftViews =>
        \A i \in RecordRows :
            LET axe == rowData[i] IN
            axe.id \in DOMAIN pendingEdits =>
                /\ pendingEdits[axe.id].quantity # NoQty
                      => axe.quantity = pendingEdits[axe.id].quantity
                /\ pendingEdits[axe.id].side # NoSide
                      => axe.side = pendingEdits[axe.id].side

DraftShownAfterBroadcast ==
    /\ view \in DraftViews
    /\ \E i \in RecordRows : \E a \in Find(snapshot, rowData[i].id) :
        /\ rowData[i].id \in DOMAIN pendingEdits
        /\ pendingEdits[rowData[i].id].quantity # NoQty
        /\ a.quantity # pendingEdits[rowData[i].id].quantity
        /\ a.status = "PAUSED"
        /\ rowData[i].quantity = pendingEdits[rowData[i].id].quantity

DraftComparedWithConfirmed ==
    view \in DraftViews =>
        \A i \in RecordRows : \A e \in CellEdits(rowData[i], QuantityInputs) :
        \A a \in ServerAxe(rowData[i].id) : \A c \in Find(snapshot, rowData[i].id) :
            rowData[i].id \notin DOMAIN pendingEdits =>
                (rowData[i].id \notin DOMAIN StagedEdits(pendingEdits, a, e[1], e[2])
                    <=> e[2] = Field(c, e[1]))

\* C9: a successful createOrUpdate whose identifier is absent or unknown to
\* the store draws a new identifier and stores an Active record under it.
CreateDrawsNewId ==
    [][(Applied /\ Head(inflight).op = "createOrUpdate"
          /\ (Head(inflight).id = NoId \/ ~Has(Head(inflight).id)))
       => /\ storeUuid' = storeUuid + 1
          /\ Ids(storeAxes') = Ids(storeAxes) \cup {StoreId(storeUuid')}
          /\ \A a \in Find(storeAxes', StoreId(storeUuid')) : a.status = "ACTIVE"]_vars

\* C10: every identifier in the store was generated by the store.
StoreIdsAreStoreGenerated ==
    \A id \in Ids(storeAxes) : IsStoreGenerated(id)

(* ------------------- properties of the service used directly ----------- *)

\* the record a list holds under an identifier
RecordOf(list, id) == CHOOSE a \in Find(list, id) : TRUE

\* C11: when the store applies a createOrUpdate whose identifier it holds, the
\* record afterwards carries the request's side and quantity and the fields
\* of the request's instrument, its status is the one it had before, whatever
\* that was, and every other record is as it was.
UpdateKeepsStatus ==
    [][(Applied /\ Head(inflight).op = "createOrUpdate" /\ Has(Head(inflight).id))
          => LET c == Head(inflight)
                 old == RecordOf(storeAxes, c.id)
                 new == RecordOf(storeAxes', c.id)
             IN  /\ Find(storeAxes', c.id) # {}
                 /\ Ids(storeAxes') = Ids(storeAxes)
                 /\ new.status = old.status
                 /\ new.side = c.side
                 /\ new.quantity = c.quantity
                 /\ new.isin = c.isin
                 /\ \E i \in mockInstruments :
                        i.isin = c.isin /\ new.description = i.description
                 /\ FilterOut(storeAxes', c.id) = FilterOut(storeAxes, c.id)]_vars

\* C11 witness: an update has just been applied to a record that was BLOCKED
\* and still is, with the side and quantity the update carried
BlockedRecordUpdated ==
    /\ lastOutcome.op = "createOrUpdate"
    /\ lastOutcome.ok
    /\ lastOutcome.status = "BLOCKED"
    /\ StatusOf(lastOutcome.id) = "BLOCKED"
    /\ RecordOf(storeAxes, lastOutcome.id).side = "Offer"
    /\ RecordOf(storeAxes, lastOutcome.id).quantity = OTHER_QUANTITY

\* the codes of the instrument directory
DirectoryCodes == {i.isin : i \in mockInstruments}

\* no listener is invoked in the step
NoBroadcast == held' = held

\* C12: a createOrUpdate whose instrument code is not in the directory
\* rejects with the instrument-not-found error; the store's records are the
\* same after it, and no listener is invoked.
UnknownInstrumentRejects ==
    [][(Resolves /\ Head(inflight).op = "createOrUpdate"
            /\ Head(inflight).isin \notin DirectoryCodes)
          => /\ storeAxes' = storeAxes
             /\ NoBroadcast
             /\ view = "API" =>
                  /\ ~lastOutcome'.ok
                  /\ lastOutcome'.error = "Instrument not found"]_vars

\* C12 witness: an update of a held record with an unknown code has been
\* turned down while a listener was attached
UnknownInstrumentTurnedDown ==
    /\ lastOutcome.op = "createOrUpdate"
    /\ ~lastOutcome.ok
    /\ lastOutcome.error = "Instrument not found"
    /\ lastOutcome.id \in Ids(storeAxes)
    /\ listeners # {}

\* C13: pause, resume, block, unblock and delete of an identifier the store
\* does not hold when the command takes effect reject with the
\* record-not-found error; the store's records are the same after it, and no
\* listener is invoked.
UnknownIdRejects ==
    [][(Resolves /\ Head(inflight).op \in StatusOps \cup {"delete"}
            /\ Head(inflight).id \notin Ids(storeAxes))
          => /\ storeAxes' = storeAxes
             /\ NoBroadcast
             /\ view = "API" =>
                  /\ ~lastOutcome'.ok
                  /\ lastOutcome'.error = "Axe not found"]_vars

\* C13 witness: a resume of an identifier the store never held has been
\* turned down while the store held a record and a listener was attached
UnknownIdTurnedDown ==
    /\ lastOutcome.op = "resume"
    /\ ~lastOutcome.ok
    /\ lastOutcome.error = "Axe not found"
    /\ lastOutcome.id = ClientId(1)
    /\ storeAxes # <<>>
    /\ listeners # {}

\* the command now taking effect waited directly behind an applied command
\* op on the same identifier
Behind(op) ==
    /\ Resolves
    /\ lastOutcome.op = op
    /\ lastOutcome.ok
    /\ lastOutcome.id = Head(inflight).id
    /\ lastOutcome.queued >= 1

\* C14: a status command that was in flight together with a delete of the
\* same identifier, and takes effect just after the delete was applied,
\* rejects with the record-not-found error; the identifier stays absent from
\* the store and no record changes.
StatusBehindDeleteRejects ==
    [][(Behind("delete") /\ Head(inflight).op \in StatusOps)
          => /\ ~lastOutcome'.ok
             /\ lastOutcome'.error = "Axe not found"
             /\ Head(inflight).id \notin Ids(storeAxes')
             /\ storeAxes' = storeAxes
             /\ NoBroadcast]_vars

\* C14 witness: a pause has been turned down right after the delete it was
\* racing with removed the record
PauseLostRaceWithDelete ==
    /\ lastOutcome.op = "pause"
    /\ lastOutcome.prevOp = "delete"
    /\ ~lastOutcome.ok
    /\ IsStoreGenerated(lastOutcome.id)
    /\ lastOutcome.id \notin Ids(storeAxes)

\* C15: a pause that takes effect on an ACTIVE record resolves and leaves the
\* record PAUSED with its other fields as they were; a second pause of the
\* same identifier, called before the first resolved and taking effect right
\* after it, resolves too and leaves the store exactly as the first left it.
DoublePauseEndsPaused ==
    [][/\ (Resolves /\ Head(inflight).op = "pause"
              /\ StatusOf(Head(inflight).id) = "ACTIVE")
          => LET id == Head(inflight).id IN
              /\ lastOutcome'.ok
              /\ storeAxes' = MapSet(storeAxes,
                     [RecordOf(storeAxes, id) EXCEPT !.status = "PAUSED"])
       /\ (Behind("pause") /\ Head(inflight).op = "pause"
              /\ lastOutcome.status = "ACTIVE")
          => LET id == Head(inflight).id IN
              /\ lastOutcome'.ok
              /\ storeAxes' = storeAxes
              /\ Find(storeAxes', id) # {}
              /\ RecordOf(storeAxes', id).status = "PAUSED"]_vars

\* C15 witness: two pauses of an ACTIVE record were in flight together and
\* both have resolved; the record is PAUSED
BothPausesResolved ==
    /\ lastOutcome.op = "pause"
    /\ lastOutcome.ok
    /\ lastOutcome.prevOp = "pause"
    /\ lastOutcome.prevStatus = "ACTIVE"
    /\ lastOutcome.status = "PAUSED"
    /\ StatusOf(lastOutcome.id) = "PAUSED"

\* a subscribe call returns in the step
Subscribes == Len(handles') = Len(handles) + 1

\* C16: in the subscribe call itself the listener is attached and invoked
\* once with the records the store holds at that moment; a listener is never
\* invoked for the first time by anything but its own subscribe call, so no
\* broadcast reaches it earlier.
SubscribeYieldsCurrentSet ==
    [][/\ Subscribes
          => LET l == handles'[Len(handles')].listener IN
              /\ l \in listeners'
              /\ held'[l].list = storeAxes
              /\ held'[l].n = held[l].n + 1
              /\ storeAxes' = storeAxes
       /\ \A l \in Listeners :
            (held[l].n = 0 /\ held'[l].n > 0)
              => (Subscribes /\ handles'[Len(handles')].listener = l)]_vars

\* C16 witness: a listener subscribed to a store that held a record, with a
\* command still in flight: it has been invoked once, with that record
SubscribedToHeldRecord ==
    \E l \in listeners :
        /\ held[l].n = 1
        /\ held[l].list = storeAxes
        /\ storeAxes # <<>>
        /\ inflight # <<>>

\* C17: once subscribe has been called twice and the closure returned by the
\* first call has been invoked, every command the store applies invokes the
\* listener of the second call with the store's records, whichever listeners
\* the two calls were given.
SecondSubscriptionKeepsReceiving ==
    [][(Applied /\ Len(handles) = 2 /\ handles[1].called /\ ~handles[2].called)
          => LET l == handles[2].listener IN
              /\ held'[l].n = held[l].n + 1
              /\ held'[l].list = storeAxes']_vars

\* the closures returned for a listener, and whether all of them were invoked
HandlesOf(l) == {k \in DOMAIN handles : handles[k].listener = l}
Unsubscribed(l) == HandlesOf(l) # {} /\ \A k \in HandlesOf(l) : handles[k].called

\* C18: a listener whose unsubscribe closure has been invoked is invoked by no
\* later step of the store, whether the command was called before or after
\* the detachment, until it is passed to subscribe again; every listener that
\* is attached when a command is applied is invoked once, with the store's
\* records after the command.
DetachedListenerIsSilent ==
    [][/\ \A l \in Listeners :
            (Unsubscribed(l)
                /\ ~(Subscribes /\ handles'[Len(handles')].listener = l))
              => held'[l] = held[l]
       /\ Applied
          => \A l \in listeners : held'[l] = Received(held[l], storeAxes')]_vars

\* C18 witness: one listener detached and another stayed; a command was
\* applied afterwards, which only the attached listener has seen
OnlyAttachedListenerHeard ==
    \E l \in Listeners, o \in listeners :
        /\ Unsubscribed(l)
        /\ l \notin listeners
        /\ held[l].n >= 1
        /\ held[l].list # storeAxes
        /\ held[o].list = storeAxes
        /\ held[o].n >= 2
        /\ lastOutcome.ok
        /\ lastOutcome.op # "none"

(* ------------------------ properties of saving drafts ------------------ *)

\* the command called last
LastIssued == inflight[Len(inflight)]

\* C19: the step that saves one row (the row stays in the base list, its
\* Pending Edit goes, one command is called) takes the Pending Edit away at
\* once and issues exactly one command, an update carrying the record's
\* identifier and instrument code with side and quantity from the draft where
\* the draft has them and from the base record otherwise, and writes the same
\* side and quantity into the record of the view's base list.
SaveRowInOneStep ==
    [][\A id \in DOMAIN pendingEdits :
          (/\ DOMAIN pendingEdits' = DOMAIN pendingEdits \ {id}
           /\ issued' = issued + 1
           /\ id \in Ids(axes'))
            => LET base == RecordOf(axes, id)
                   draft == pendingEdits[id]
                   side == IF draft.side # NoSide THEN draft.side ELSE base.side
                   quantity == IF draft.quantity # NoQty THEN draft.quantity
                               ELSE base.quantity
                   c == inflight'[Len(inflight')]
               IN  /\ Find(axes, id) # {}
                   /\ inflight' = Append(inflight, c)
                   /\ c.op = "createOrUpdate"
                   /\ c.id = id
                   /\ c.isin = base.isin
                   /\ c.side = side
                   /\ c.quantity = quantity
                   /\ axes' = MapSet(axes, [base EXCEPT !.side = side,
                                                        !.quantity = quantity])]_vars

\* C19 witness: a row whose draft held a quantity only has been saved; its
\* update is in flight with the drafted quantity and the base side, the base
\* list shows both, and the row has no Pending Edit
RowSavedWithQuantityDraft ==
    /\ view \in DraftViews
    /\ inflight # <<>>
    /\ LastIssued.op = "createOrUpdate"
    /\ LastIssued.id \in Ids(axes) \cap Ids(snapshot)
    /\ LastIssued.id \notin DOMAIN pendingEdits
    /\ LET base == RecordOf(axes, LastIssued.id)
           confirmed == RecordOf(snapshot, LastIssued.id)
       IN  /\ base.quantity = LastIssued.quantity
           /\ base.side = LastIssued.side
           /\ base.quantity # confirmed.quantity
           /\ base.side = confirmed.side

\* the commands a Save All adds to the calls in flight
IssuedBy(st) == {st.inflight[k] : k \in Len(inflight) + 1 .. Len(st.inflight)}

\* C20: in every state of a draft-staging view, whatever Pending Edits it
\* holds, Save All leaves no Pending Edit, issues exactly one update for each
\* identifier that had one, and yields the same base list, Pending Edits and
\* set of commands in whichever order the identifiers are visited.
SaveAllSavesEveryDraft ==
    view \in DraftViews
      => \A order \in Orders(DOMAIN pendingEdits) :
          LET st == SavedAll(ViewState, order) IN
          /\ st.pendingEdits = NoEdits
          /\ st.issued = issued + Cardinality(DOMAIN pendingEdits)
          /\ \A id \in DOMAIN pendingEdits :
                Cardinality({c \in IssuedBy(st) :
                               c.op = "createOrUpdate" /\ c.id = id}) = 1
          /\ \A other \in Orders(DOMAIN pendingEdits) :
                LET ot == SavedAll(ViewState, other) IN
                /\ ot.axes = st.axes
                /\ ot.pendingEdits = st.pendingEdits
                /\ IssuedBy(ot) = IssuedBy(st)

(* ------------------- properties of reverting and rollback -------------- *)

\* C21: a Revert row step takes exactly one record's Pending Edit away; it
\* calls no command, and the base list, the other records' Pending Edits and
\* the store stay as they were.
RevertRowOnlyDropsTheDraft ==
    [][lastHandler' = "revertRow"
          => /\ \E id \in DOMAIN pendingEdits :
                  /\ DOMAIN pendingEdits' = DOMAIN pendingEdits \ {id}
                  /\ \A k \in DOMAIN pendingEdits' : pendingEdits'[k] = pendingEdits[k]
             /\ inflight' = inflight
             /\ issued' = issued
             /\ axes' = axes
             /\ snapshot' = snapshot
             /\ storeAxes' = storeAxes]_vars

\* C21 witness: a row has just been reverted while another record's Pending
\* Edit and a command in flight were there
RowRevertedBesideAnotherDraft ==
    /\ lastHandler = "revertRow"
    /\ DOMAIN pendingEdits # {}
    /\ inflight # <<>>
    /\ axes # <<>>

\* the create of a new-row or pinned-row confirmation is turned down
CreateRolledBack ==
    /\ Rejected
    /\ Head(inflight).op = "createOrUpdate"
    /\ Head(inflight).cb = "rollbackCreate"

\* C22: when the create of a new-row or pinned-row confirmation rejects, the
\* record inserted under the temporary identifier is not in the base list
\* afterwards, and every other record of the list is still there, in place.
RollbackRemovesOnlyOptimisticRow ==
    [][CreateRolledBack
          => LET newId == Head(inflight).newId IN
              /\ newId \notin Ids(axes')
              /\ axes' = SelectSeq(axes, LAMBDA a : a.id # newId)]_vars

\* C22 witness: a rejected create has just been rolled back in a list that
\* held another record, which is still there
RolledBackBesideAnotherRecord ==
    /\ lastHandler = "rollbackCreate"
    /\ axes # <<>>
    /\ axes = snapshot
    /\ \A id \in Ids(axes) : IsStoreGenerated(id)

\* C23: after the create of a new-row confirmation rejects, the view holds a
\* new-row draft with the instrument, side and quantity that were submitted;
\* after the create of a pinned-row confirmation rejects, the pinned row
\* holds them.
DraftKeptAfterRejectedCreate ==
    [][CreateRolledBack
          => LET c == Head(inflight) IN
              IF view \in NewRowViews
              THEN \E i \in DOMAIN newRows' :
                      /\ newRows'[i].isin = c.isin
                      /\ newRows'[i].side = c.side
                      /\ newRows'[i].quantity = c.quantity
              ELSE /\ pinnedRow'.isin = c.isin
                   /\ pinnedRow'.side = c.side
                   /\ pinnedRow'.quantity = c.quantity]_vars

(* ----------------------- properties of quantities ---------------------- *)

\* C24: no create waiting to take effect carries an empty instrument code or
\* a quantity below 1, whichever creation path called it.
CreatesAreValidated ==
    \A i \in DOMAIN inflight :
        (inflight[i].op = "createOrUpdate" /\ inflight[i].id = NoId)
          => (inflight[i].isin # "" /\ inflight[i].quantity >= 1)

\* C25: every record the store holds has a quantity of at least 1.
StoredQuantitiesArePositive ==
    \A i \in DOMAIN storeAxes : storeAxes[i].quantity >= 1

(* ------------------------- properties of creation ---------------------- *)

\* C26: when the store applies a createOrUpdate that carries no identifier,
\* it adds one record, under an identifier it did not hold: the record is
\* ACTIVE, has the side and quantity of the request and the code and
\* description of the directory instrument with the requested code; the same
\* record is returned to the caller and is in the list every attached
\* listener is invoked with.
CreateStoresRequestedRecord ==
    [][(Applied /\ Head(inflight).op = "createOrUpdate" /\ Head(inflight).id = NoId)
          => LET c == Head(inflight)
                 new == storeAxes'[Len(storeAxes')]
             IN  /\ storeAxes' = Append(storeAxes, new)
                 /\ new.id \notin Ids(storeAxes)
                 /\ new.status = "ACTIVE"
                 /\ new.side = c.side
                 /\ new.quantity = c.quantity
                 /\ \E i \in mockInstruments :
                        /\ i.isin = c.isin
                        /\ new.isin = i.isin
                        /\ new.description = i.description
                 /\ view = "API" => lastOutcome'.returned = new
                 /\ \A l \in listeners :
                        /\ held'[l].n = held[l].n + 1
                        /\ held'[l].list = storeAxes']_vars

\* C26 witness: a create for Offer and the other quantity has resolved with
\* its record, which the store holds and an attached listener was handed
OfferCreatedAndBroadcast ==
    /\ lastOutcome.op = "createOrUpdate"
    /\ lastOutcome.id = NoId
    /\ lastOutcome.ok
    /\ lastOutcome.returned.side = "Offer"
    /\ lastOutcome.returned.quantity = OTHER_QUANTITY
    /\ lastOutcome.returned.status = "ACTIVE"
    /\ \E i \in DOMAIN storeAxes : storeAxes[i] = lastOutcome.returned
    /\ \E l \in listeners : held[l].list = storeAxes

(* --------------------------- properties of V1 -------------------------- *)

\* a command called from the modal's Save is waiting or taking effect
ModalCommandIn(queue) == \E i \in DOMAIN queue : queue[i].cb = "modal"

\* C27: in V1 the list changes only in a step in which the store applies a
\* command and broadcasts; the click on Save changes neither the list nor the
\* modal; the command of a Save closes the modal when it has succeeded and
\* leaves it as it is when it is rejected; and the saving flag is up exactly
\* while the command of a Save is in flight.
ModalViewFollowsBroadcasts ==
    [][view = "V1"
          => /\ axes' # axes => Applied
             /\ UNCHANGED loadVars
             /\ lastHandler' = "saveClicked"
                  => (axes' = axes /\ modalOpened' = modalOpened /\ modalOpened')
             /\ (Resolves /\ Head(inflight).cb = "modal")
                  => modalOpened' = (IF Rejects(Head(inflight)) THEN modalOpened
                                     ELSE FALSE)
             /\ saving' = ModalCommandIn(inflight')]_vars

\* C27 witness: in V1 Save has just been clicked on an edit that changes the
\* selected record's side; the list still shows the old side, the modal is
\* open and the saving flag is up
SaveClickedListUntouched ==
    /\ view = "V1"
    /\ lastHandler = "saveClicked"
    /\ modalMode = "edit"
    /\ modalOpened
    /\ saving
    /\ \E i \in DOMAIN axes :
          /\ axes[i].id = LastIssued.id
          /\ axes[i].side # LastIssued.side

(* ------------------ properties of the instrument directory ------------- *)

\* C28: instrument loads collapse to one in-flight load: at no time are two
\* loads of the instrument directory in flight at once, also when a user of
\* the directory is detached and another attached before the first load has
\* completed.
OneLoadInFlight == Len(fetching) <= 1

\* two characters are the same letter, whatever their case
CasePairs ==
    {<<"U", "u">>, <<"S", "s">>, <<"D", "d">>, <<"E", "e">>, <<"F", "f">>,
     <<"R", "r">>, <<"T", "t">>, <<"B", "b">>, <<"O", "o">>, <<"A", "a">>}
SameIgnoringCase(c, d) == c = d \/ <<c, d>> \in CasePairs \/ <<d, c>> \in CasePairs

\* the text holds the query at some offset, ignoring case
ContainsIgnoringCase(text, query) ==
    \E k \in 0..(Len(text) - Len(query)) :
        \A j \in 1..Len(query) : SameIgnoringCase(text[k + j], query[j])

RECURSIVE FirstMatching(_, _, _)
\* the first n instruments of the list, in its order, whose code or
\* description contains the query
FirstMatching(list, query, n) ==
    IF list = <<>> \/ n = 0
    THEN <<>>
    ELSE IF \/ ContainsIgnoringCase(Head(list).isin, query)
            \/ ContainsIgnoringCase(Head(list).description, query)
         THEN <<Head(list)>> \o FirstMatching(Tail(list), query, n - 1)
         ELSE FirstMatching(Tail(list), query, n)

\* the reference result of a search by a user of the directory
ReferenceSearch(hook, query) ==
    IF Len(query) < MIN_QUERY_LENGTH \/ hook.loading
    THEN <<>>
    ELSE FirstMatching(directory, query, SEARCH_LIMIT)

\* C29: every search returns the reference result: the empty list when the
\* query has fewer than 2 characters or the directory is not yet loaded,
\* and otherwise the first 50, in directory order, of the instruments
\* whose code or description contains the query ignoring case.
SearchEqualsReference ==
    [][searched' # searched
        => searched'.result
             = ReferenceSearch(hooks[searched'.hook], searched'.query)]_vars

\* a mixed-case query answered with a full page cut from a longer list of
\* matches
SearchCappedIgnoringCase ==
    /\ searched.query = <<"U", "s">>
    /\ Len(searched.result) = SEARCH_LIMIT
    /\ Len(SelectSeq(directory, LAMBDA i : i.isin = <<"U", "S", "0">>)) > SEARCH_LIMIT

(* ---------------------- properties of failed commands ------------------ *)

\* an update from an inline edit or a saved draft, or a status command
UpdateOrStatus(c) ==
    \/ c.op \in StatusOps
    \/ c.op = "createOrUpdate" /\ c.cb = "none"

\* C30: when an update command (inline edit or saved draft) or a status
\* command rejects, the failure handler leaves the view's base list and
\* its Pending Edits exactly as they were: nothing written optimistically
\* is reverted.
FailedCommandLeavesViewAlone ==
    [][(Rejected /\ UpdateOrStatus(Head(inflight)))
        => axes' = axes /\ pendingEdits' = pendingEdits]_vars

\* a command on a row has just been turned down while another row shows a
\* value the store has not confirmed
CommandFailedBesideOptimisticRow ==
    /\ lastHandler = "commandFailed"
    /\ axes # <<>>
    /\ axes # snapshot

(* ---------------------- properties of staging and frames --------------- *)

\* the two maps of Pending Edits agree on every record but id
SameEditsExcept(before, after, id) ==
    \A k \in (DOMAIN before \cup DOMAIN after) \ {id} :
        k \in DOMAIN before /\ k \in DOMAIN after /\ before[k] = after[k]

\* C31: under draft staging (V4, V5, V6) a side or quantity cell edit on an
\* existing row issues no command and changes neither the view's base list
\* nor the store; it changes only that record's Pending Edit entry.
CellEditOnlyStages ==
    [][onCellValueChangedDraft
        => /\ inflight' = inflight /\ issued' = issued
           /\ axes' = axes /\ storeAxes' = storeAxes
           /\ pendingEdits' # pendingEdits
           /\ \E id \in Ids(axes) : SameEditsExcept(pendingEdits, pendingEdits', id)]_vars

\* two records of the base list carry a Pending Edit each and no command is
\* in flight
TwoRowsStaged ==
    /\ view \in DraftViews
    /\ Cardinality(DOMAIN pendingEdits) = 2
    /\ DOMAIN pendingEdits \subseteq Ids(axes)
    /\ inflight = <<>>

\* C32: with the mock store, whenever no command is in flight the base list
\* of the attached view holds exactly the store's record set: no optimistic
\* change survives once every command issued has resolved or rejected.
QuiescentViewHoldsStore ==
    inflight = <<>> => axes = storeAxes

\* the last command to settle was turned down, nothing is in flight, and
\* the view shows the record the store holds
QuiescentAfterFailedCommand ==
    /\ lastHandler = "commandFailed"
    /\ inflight = <<>>
    /\ axes # <<>>
    /\ axes = storeAxes

(* -------------------- properties of commands in flight ----------------- *)

\* the list shows the optimistic effect of a command a row handler issued
Shown(c, list) ==
    CASE c.cb = "rollbackCreate" -> c.newId \in Ids(list)
      [] c.cb = "none" /\ c.op = "delete" -> c.id \notin Ids(list)
      [] c.cb = "none" /\ c.op \in StatusOps ->
            \E i \in DOMAIN list :
                list[i].id = c.id /\ list[i].status = TargetStatus(c.op)
      [] c.cb = "none" /\ c.op = "createOrUpdate" ->
            \E i \in DOMAIN list :
                /\ list[i].id = c.id
                /\ list[i].side = c.side /\ list[i].quantity = c.quantity
      [] OTHER -> TRUE

\* C33: from the moment a view applies an optimistic change for a command
\* until that command resolves, the base list keeps showing the optimistic
\* effect: no broadcast caused by an earlier-issued command replaces the
\* list with a snapshot that lacks it.
OptimisticEffectOutlivesBroadcasts ==
    [][Applied
        => \A k \in 2..Len(inflight) :
              Shown(inflight[k], axes) => Shown(inflight[k], axes')]_vars

\* the identifiers the store has handed out and holds no more: their
\* records were deleted
DeletedIds == {StoreId(n) : n \in 1..storeUuid} \ Ids(storeAxes)

\* C34: once the store has applied a successful delete(id), no record with
\* that id exists in the store in any later state: no command issued before
\* or after the delete brings the record back.
DeletedStaysDeleted ==
    [][\A id \in DeletedIds : id \notin Ids(storeAxes')]_vars

(* ----------------------- properties of the render ---------------------- *)

\* C35: in every reachable state of a draft-staging view every Pending Edit
\* entry makes a difference: for each record with a Pending Edit, the
\* overlaid side or quantity differs from the value of that record in the
\* view's base list.
EveryPendingEditDiffers ==
    view \in DraftViews
        => \A i \in DOMAIN axes :
              axes[i].id \in DOMAIN pendingEdits
                  => \/ Overlay(axes[i]).side # axes[i].side
                     \/ Overlay(axes[i]).quantity # axes[i].quantity

BroadcastLeavesDraftsAlone ==
    [][Applied
        => /\ axes' = storeAxes'
           /\ pendingEdits' = pendingEdits
           /\ newRows' = newRows
           /\ pinnedRow' = pinnedRow]_vars

\* a Pending Edit staged on an optimistic row is still held after the
\* broadcast that replaced the row
DraftOutlivesReplacedRow ==
    /\ view \in DraftViews
    /\ inflight = <<>>
    /\ axes # <<>>
    /\ \E id \in DOMAIN pendingEdits : id \notin Ids(axes)

(* ------------------------- properties of settling ---------------------- *)

\* the commands that have settled
settled == issued - Len(inflight)

\* the listener's invocation count
broadcasts == held["L1"].n

\* C38: every command issued to the mock store eventually settles, exactly
\* once: it either takes effect and produces exactly one broadcast, or
\* rejects and produces none; no command stays in flight forever.
EveryCommandSettlesOnce ==
    /\ [][/\ Applied => (settled' = settled + 1 /\ broadcasts' = broadcasts + 1)
          /\ Rejected => (settled' = settled + 1 /\ broadcasts' = broadcasts)
          /\ ~Resolves => (settled' = settled /\ broadcasts' = broadcasts)]_vars
    /\ \A k \in 1..MaxApiCalls : (issued >= k) ~> (settled >= k)

\* every command of the run has settled: the listener was called on
\* subscribing and once for each of the two commands that took effect, and
\* the last command was turned down
AllSettledOneTurnedDown ==
    /\ issued = MaxApiCalls
    /\ inflight = <<>>
    /\ broadcasts = MaxApiCalls
    /\ ~lastOutcome.ok

====
